---- MODULE Spec2Model ----
(***************************************************************************)
(* A model of monkeytype/typing.py: value -> type inference (get_type,     *)
(* get_dict_type), type shrinking (shrink_types, shrink_typed_dict_types)  *)
(* and the type rewriters (GenericTypeRewriter and its subclasses).        *)
(*                                                                         *)
(* A type is a node [k, n, m, a, r, o]:                                    *)
(*   k  the shape: "Any", "Class", "Type", "Callable", "List", "Set",      *)
(*      "Tuple", "Dict", "DefaultDict", "Iterator", "Generator",           *)
(*      "TypedDict", "Union", "Ellipsis", and "Error" for a raised         *)
(*      exception (n is then the exception's class);                       *)
(*   n  the class name (__name__) of a class or TypedDict;                 *)
(*   m  __module__ of a generic alias: "typing" for typing.List[...],      *)
(*      "builtins" for list[...];                                          *)
(*   a  __args__, in order;                                                *)
(*   r, o  the required and the optional fields of a TypedDict, each a     *)
(*      sequence of <<name, type>> in dict insertion order.                *)
(* Unions follow Python 3.14, where X | Y is typing.Union[X, Y].           *)
(***************************************************************************)
EXTENDS Integers, Sequences, FiniteSets, TLC

VARIABLES op, obj, types, max_typed_dict_size, max_union_len, result

vars == <<op, obj, types, max_typed_dict_size, max_union_len, result>>

DUMMY_TYPED_DICT_NAME == "DUMMY_NAME"

None == <<>>

Some(n) == <<n>>

Node(k, n, m, a, r, o) == [k |-> k, n |-> n, m |-> m, a |-> a, r |-> r, o |-> o]

AnyT == Node("Any", "Any", "typing", <<>>, <<>>, <<>>)

Class(c) == Node("Class", c, "builtins", <<>>, <<>>, <<>>)

Ellipsis == Node("Ellipsis", "ellipsis", "builtins", <<>>, <<>>, <<>>)

Error(e) == Node("Error", e, "builtins", <<>>, <<>>, <<>>)

IsError(t) == t.k = "Error"

HasError(s) == \E i \in 1..Len(s) : IsError(s[i])

FirstError(s) == s[CHOOSE i \in 1..Len(s) : IsError(s[i]) /\ \A j \in 1..(i - 1) : ~IsError(s[j])]

\* container_type[elements]: a generic alias; an exception raised while the
\* elements are computed propagates instead.
Generic(k, m, a) == IF HasError(a) THEN FirstError(a) ELSE Node(k, "", m, a, <<>>, <<>>)

TypeOf(c) == Node("Type", c, "builtins", <<Class(c)>>, <<>>, <<>>)

CallableT == Node("Callable", "Callable", "collections.abc", <<>>, <<>>, <<>>)

NoneType == Class("NoneType")

RECURSIVE Canon(_)
RECURSIVE shrink_types(_, _)
RECURSIVE shrink_typed_dict_types(_, _)
RECURSIVE rewrite(_, _)
RECURSIVE get_type(_, _)
RECURSIVE get_dict_type(_, _)
RECURSIVE Concat(_)
RECURSIVE Flatten(_)
RECURSIVE DedupeUpTo(_, _)
RECURSIVE KeysUpTo(_, _)
RECURSIVE ChainedRewriter_rewrite(_, _)

\* The value == compares: a Union by the set of its members, a TypedDict by its
\* name and its two field dicts (dict equality ignores insertion order),
\* everything else by shape, module and args in order.
Canon(t) ==
    [k |-> t.k, n |-> t.n, m |-> t.m,
     a |-> IF t.k = "Union" THEN <<>> ELSE [i \in 1..Len(t.a) |-> Canon(t.a[i])],
     u |-> IF t.k = "Union" THEN {Canon(t.a[i]) : i \in 1..Len(t.a)} ELSE {},
     r |-> {<<t.r[i][1], Canon(t.r[i][2])>> : i \in 1..Len(t.r)},
     o |-> {<<t.o[i][1], Canon(t.o[i][2])>> : i \in 1..Len(t.o)}]

types_equal(typ, other_type) == typ = other_type \/ Canon(typ) = Canon(other_type)

is_any(typ) == typ.k = "Any"

is_union(typ) == typ.k = "Union"

is_typed_dict(typ) == typ.k = "TypedDict"

is_generic(typ) ==
    typ.k \in {"List", "Set", "Tuple", "Dict", "DefaultDict", "Iterator", "Generator", "Union"}

name_of_generic(typ) == typ.k

is_generic_of(typ, gen) == is_generic(typ) /\ typ.k = gen

is_list(typ) == is_generic(typ) /\ name_of_generic(typ) = "List"

Concat(seqs) == IF seqs = <<>> THEN <<>> ELSE Head(seqs) \o Concat(Tail(seqs))

\* Union[...] puts the members of a member union in its place.
Flatten(s) ==
    IF s = <<>> THEN <<>>
    ELSE (IF is_union(Head(s)) THEN Head(s).a ELSE <<Head(s)>>) \o Flatten(Tail(s))

\* Union[...] keeps the first of equal members.
DedupeUpTo(s, n) ==
    IF n = 0 THEN <<>>
    ELSE LET p == DedupeUpTo(s, n - 1)
         IN IF \E j \in 1..Len(p) : types_equal(p[j], s[n]) THEN p ELSE Append(p, s[n])

\* typing.Union[params]
Union(params) ==
    IF params = <<>> THEN Error("TypeError")
    ELSE IF HasError(params) THEN FirstError(params)
    ELSE LET flat == Flatten(params)
             members == DedupeUpTo(flat, Len(flat))
         IN IF Len(members) = 1 THEN members[1]
            ELSE Node("Union", "", "typing", members, <<>>, <<>>)

get_args(union) == union.a

FieldNames(fields) == {fields[i][1] : i \in 1..Len(fields)}

FieldTypes(fields) == [i \in 1..Len(fields) |-> fields[i][2]]

\* The keys of a dict built by inserting the pairs in order.
KeysUpTo(pairs, n) ==
    IF n = 0 THEN <<>>
    ELSE LET p == KeysUpTo(pairs, n - 1)
         IN IF \E j \in 1..Len(p) : p[j] = pairs[n][1] THEN p ELSE Append(p, pairs[n][1])

Keys(pairs) == KeysUpTo(pairs, Len(pairs))

\* The values appended under one key, in order.
ValuesFor(key, pairs) == FieldTypes(SelectSeq(pairs, LAMBDA p : p[1] = key))

make_typed_dict(required_fields, optional_fields) ==
    IF HasError(FieldTypes(required_fields)) THEN FirstError(FieldTypes(required_fields))
    ELSE IF HasError(FieldTypes(optional_fields)) THEN FirstError(FieldTypes(optional_fields))
    ELSE IF FieldNames(required_fields) \cap FieldNames(optional_fields) # {}
         THEN Error("AssertionError")
    ELSE Node("TypedDict", DUMMY_TYPED_DICT_NAME, "", <<>>, required_fields, optional_fields)

field_annotations(typed_dict) == <<typed_dict.r, typed_dict.o>>

is_anonymous_typed_dict(typ) == is_typed_dict(typ) /\ typ.n = DUMMY_TYPED_DICT_NAME


(***************************************************************************)
(* Classes: __bases__ of every class the model uses, and the method        *)
(* resolution order Python derives from it (C3 linearisation).             *)
(***************************************************************************)
ClassNames == {"object", "int", "bool", "str", "NoneType", "Animal", "Dog", "Cat", "Pet", "PetCat"}

bases(c) ==
    CASE c = "object" -> <<>>
      [] c = "bool" -> <<"int">>
      [] c = "Dog" -> <<"Animal">>
      [] c = "Cat" -> <<"Animal">>
      [] c = "PetCat" -> <<"Cat", "Pet">>
      [] OTHER -> <<"object">>

RECURSIVE c3_merge(_)
c3_merge(seqs) ==
    LET ne == SelectSeq(seqs, LAMBDA s : s # <<>>)
    IN IF ne = <<>> THEN <<>>
       ELSE LET good(h) == \A i \in 1..Len(ne) : \A j \in 2..Len(ne[i]) : ne[i][j] # h
                idx == CHOOSE i \in 1..Len(ne) :
                           good(ne[i][1]) /\ \A j \in 1..(i - 1) : ~good(ne[j][1])
                h == ne[idx][1]
            IN <<h>> \o c3_merge([i \in 1..Len(ne) |->
                                    IF ne[i][1] = h THEN Tail(ne[i]) ELSE ne[i]])

RECURSIVE getmro(_)
getmro(c) ==
    <<c>> \o c3_merge([i \in 1..(Len(bases(c)) + 1) |->
                         IF i <= Len(bases(c)) THEN getmro(bases(c)[i]) ELSE bases(c)])

is_class(t) == t.k = "Class"

\* issubclass(t, ancestor) for two classes.
issubclass(t, ancestor) == \E i \in 1..Len(getmro(t.n)) : getmro(t.n)[i] = ancestor

(***************************************************************************)
(* Shrinking                                                               *)
(***************************************************************************)
\* A field counted as required although one record does not require it.
in_all_but_one_typed_dicts(value_types, num_typed_dicts) ==
    Len(value_types) >= num_typed_dicts - 1

\* A field counted as required as soon as one record requires it.
in_some_typed_dict(value_types, num_typed_dicts) == Len(value_types) >= 1

\* len(value_types) == num_typed_dicts
in_all_typed_dicts(value_types, num_typed_dicts) == Len(value_types) = num_typed_dicts

\* The size test with the optional fields left out of the count.
exceeds_max_size_required_only(n_required, n_optional, size) == n_required > size

\* The size test off by one: a record of exactly the size is demoted too.
reaches_max_size(n_required, n_optional, size) == n_required + n_optional >= size

\* len(required_fields) + len(optional_fields) > max_typed_dict_size
exceeds_max_size(n_required, n_optional, size) == n_required + n_optional > size

shrink_typed_dict_types(typed_dicts, size) ==
    LET num_typed_dicts == Len(typed_dicts)
        required_items == Concat([i \in 1..num_typed_dicts |-> field_annotations(typed_dicts[i])[1]])
        existing_optional_fields ==
            Concat([i \in 1..num_typed_dicts |-> field_annotations(typed_dicts[i])[2]])
        key_value_types_dict(key) == ValuesFor(key, required_items)
        all_keys == Keys(required_items)
        required_keys ==
            SelectSeq(all_keys, LAMBDA key : in_all_typed_dicts(key_value_types_dict(key), num_typed_dicts))
        sometimes_keys ==
            SelectSeq(all_keys, LAMBDA key : ~in_all_typed_dicts(key_value_types_dict(key), num_typed_dicts))
        optional_keys ==
            Keys([i \in 1..Len(sometimes_keys) |-> <<sometimes_keys[i], AnyT>>]
                 \o existing_optional_fields)
        optional_value_types(key) ==
            (IF \E i \in 1..Len(sometimes_keys) : sometimes_keys[i] = key
             THEN key_value_types_dict(key) ELSE <<>>)
            \o ValuesFor(key, existing_optional_fields)
    IN IF size = None THEN Error("TypeError")
       ELSE IF exceeds_max_size(Len(required_keys), Len(optional_keys), size[1])
       THEN LET value_type ==
                    shrink_types(
                        Concat([i \in 1..Len(required_keys) |-> key_value_types_dict(required_keys[i])])
                        \o Concat([i \in 1..Len(optional_keys) |-> optional_value_types(optional_keys[i])]),
                        size)
            IN Generic("Dict", "builtins", <<Class("str"), value_type>>)
       ELSE make_typed_dict(
                [i \in 1..Len(required_keys) |->
                    <<required_keys[i], shrink_types(key_value_types_dict(required_keys[i]), size)>>],
                [i \in 1..Len(optional_keys) |->
                    <<optional_keys[i], shrink_types(optional_value_types(optional_keys[i]), size)>>])

\* Only the first list's element type.
first_list_args(list_types) == <<list_types[1].a[1]>>

\* getattr(typ, "__args__")[0] for typ in types
list_args(list_types) == [i \in 1..Len(list_types) |-> list_types[i].a[1]]

RewriteAnonymousTypedDictToDict == [name |-> "RewriteAnonymousTypedDictToDict", max_union_len |-> 0]

shrink_types(types_, size) ==
    IF Len(types_) = 0 THEN AnyT
    ELSE IF HasError(types_) THEN FirstError(types_)
    ELSE IF \A i \in 1..Len(types_) : is_anonymous_typed_dict(types_[i])
    THEN shrink_typed_dict_types(types_, size)
    ELSE IF \A i \in 2..Len(types_) : types_equal(types_[i], types_[1])
    THEN types_[1]
    ELSE IF \A i \in 1..Len(types_) : is_list(types_[i])
    THEN Generic("List", "typing", <<shrink_types(list_args(types_), size)>>)
    ELSE Union([i \in 1..Len(types_) |-> rewrite(RewriteAnonymousTypedDictToDict, types_[i])])


(***************************************************************************)
(* Rewriters.  A rewriter is [name, max_union_len]; rewrite dispatches on  *)
(* the shape of the type and then on the methods the class overrides.      *)
(***************************************************************************)
RemoveEmptyContainers == [name |-> "RemoveEmptyContainers", max_union_len |-> 0]

RewriteConfigDict == [name |-> "RewriteConfigDict", max_union_len |-> 0]

RewriteLargeUnion(n) == [name |-> "RewriteLargeUnion", max_union_len |-> n]

RewriteGenerator == [name |-> "RewriteGenerator", max_union_len |-> 0]

DefaultMaxUnionLen == 5

\* What a method returns when it returns None.
NoResult == Node("None", "", "", <<>>, <<>>, <<>>)

rewrite_malformed_container(container) == container

generic_rewrite(typ) == typ

\* container_type[elements]
make_container_type(container, elems) ==
    IF is_union(container) THEN Union(elems) ELSE Generic(container.k, container.m, elems)

_rewrite_container(rw, container) ==
    IF container.m # "typing" THEN rewrite_malformed_container(container)
    ELSE make_container_type(container,
                             [i \in 1..Len(container.a) |-> rewrite(rw, container.a[i])])

\* TypeRewriter.rewrite_anonymous_TypedDict
rewrite_anonymous_TypedDict(rw, typed_dict) ==
    LET fields == field_annotations(typed_dict)
    IN make_typed_dict(
           [i \in 1..Len(fields[1]) |-> <<fields[1][i][1], rewrite(rw, fields[1][i][2])>>],
           [i \in 1..Len(fields[2]) |-> <<fields[2][i][1], rewrite(rw, fields[2][i][2])>>])

\* RewriteAnonymousTypedDictToDict.rewrite_anonymous_TypedDict
flatten_anonymous_TypedDict(rw, typed_dict) ==
    LET fields == field_annotations(typed_dict)
        all_value_types == FieldTypes(fields[1]) \o FieldTypes(fields[2])
    IN IF all_value_types = <<>> THEN Generic("Dict", "typing", <<AnyT, AnyT>>)
       ELSE Generic("Dict", "typing",
                    <<Class("str"),
                      Union([i \in 1..Len(all_value_types) |-> rewrite(rw, all_value_types[i])])>>)

\* A TypedDict with a name of its own: TypedDict(name, annotations, total=...)
make_builtin_typed_dict(name, annotations) ==
    IF HasError(FieldTypes(annotations)) THEN FirstError(FieldTypes(annotations))
    ELSE Node("TypedDict", name, "", <<>>, annotations, <<>>)

rewrite_TypedDict(rw, typed_dict) ==
    IF is_anonymous_typed_dict(typed_dict)
    THEN IF rw.name = "RewriteAnonymousTypedDictToDict"
         THEN flatten_anonymous_TypedDict(rw, typed_dict)
         ELSE rewrite_anonymous_TypedDict(rw, typed_dict)
    ELSE make_builtin_typed_dict(
             typed_dict.n,
             [i \in 1..Len(typed_dict.r) |-> <<typed_dict.r[i][1], rewrite(rw, typed_dict.r[i][2])>>])

\* GenericTypeRewriter.rewrite_Union
generic_rewrite_Union(rw, union) == _rewrite_container(rw, Union(get_args(union)))

_is_empty(typ) == typ.a # <<>> /\ \A i \in 1..Len(typ.a) : is_any(typ.a[i])

RemoveEmptyContainers_rewrite_Union(rw, union) ==
    LET kept == SelectSeq(union.a, LAMBDA e : ~_is_empty(e))
        elems == [i \in 1..Len(kept) |-> rewrite(rw, kept[i])]
    IN IF HasError(elems) THEN FirstError(elems)
       ELSE IF elems # <<>> THEN Union(get_args(union))
       ELSE union

RewriteConfigDict_rewrite_Union(union) ==
    LET args == union.a
        key_type == args[1].a[1]
    IN IF \E i \in 1..Len(args) :
              /\ \A j \in 1..(i - 1) : is_generic_of(args[j], "Dict") /\ types_equal(key_type, args[j].a[1])
              /\ ~is_generic_of(args[i], "Dict") \/ ~types_equal(key_type, args[i].a[1])
       THEN union
       ELSE Generic("Dict", "typing",
                    <<key_type, Union(Concat([i \in 1..Len(args) |-> Tail(args[i].a)]))>>)

\* vt is value_type: classes and Any are singletons.
is_same_object(vt, value_type) == vt = value_type /\ vt.k \in {"Class", "Any"}

_rewrite_to_tuple(union) ==
    LET args == union.a
    IN IF ~is_generic_of(args[1], "Tuple") THEN NoResult
       ELSE IF args[1].a = <<>> THEN Error("IndexError")
       ELSE LET value_type == args[1].a[1]
            IN IF \A i \in 1..Len(args) :
                      /\ is_generic_of(args[i], "Tuple")
                      /\ \A j \in 1..Len(args[i].a) : is_same_object(args[i].a[j], value_type)
               THEN Generic("Tuple", "typing", <<value_type, Ellipsis>>)
               ELSE NoResult

\* len(union.__args__) <= self.max_union_len
is_small_union(n_args, max_len) == n_args <= max_len

\* The first class of the mro that is not object and that every member is a
\* subclass of; issubclass raises TypeError for a member that is not a class, and
\* getmro raises AttributeError for a first member that is not one: both are
\* caught and leave Any.
first_common_ancestor(args) ==
    IF \E i \in 1..Len(args) : ~is_class(args[i]) THEN AnyT
    ELSE LET mro == getmro(args[1].n)
             common(c) == c # "object" /\ \A i \in 1..Len(args) : issubclass(args[i], c)
         IN IF \E i \in 1..Len(mro) : common(mro[i])
            THEN Class(mro[CHOOSE i \in 1..Len(mro) :
                               common(mro[i]) /\ \A j \in 1..(i - 1) : ~common(mro[j])])
            ELSE AnyT

RewriteLargeUnion_rewrite_Union(rw, union) ==
    IF is_small_union(Len(union.a), rw.max_union_len) THEN union
    ELSE LET rw_union == _rewrite_to_tuple(union)
         IN IF rw_union # NoResult THEN rw_union
            ELSE first_common_ancestor(union.a)

rewrite_Union(rw, union) ==
    CASE rw.name = "RemoveEmptyContainers" -> RemoveEmptyContainers_rewrite_Union(rw, union)
      [] rw.name = "RewriteConfigDict" -> RewriteConfigDict_rewrite_Union(union)
      [] rw.name = "RewriteLargeUnion" -> RewriteLargeUnion_rewrite_Union(rw, union)
      [] OTHER -> generic_rewrite_Union(rw, union)

RewriteGenerator_rewrite_Generator(typ) ==
    IF typ.a[2] = NoneType /\ typ.a[3] = NoneType
    THEN Generic("Iterator", "typing", <<typ.a[1]>>)
    ELSE typ

rewrite(rw, typ) ==
    IF IsError(typ) THEN typ
    ELSE IF is_any(typ) THEN generic_rewrite(typ)
    ELSE IF is_union(typ) THEN rewrite_Union(rw, typ)
    ELSE IF is_typed_dict(typ) THEN rewrite_TypedDict(rw, typ)
    ELSE IF is_generic(typ) /\ name_of_generic(typ) \in {"Dict", "List", "Set", "Tuple"}
    THEN _rewrite_container(rw, typ)
    ELSE IF is_generic(typ) /\ name_of_generic(typ) = "Generator"
    THEN IF rw.name = "RewriteGenerator" THEN RewriteGenerator_rewrite_Generator(typ)
         ELSE _rewrite_container(rw, typ)
    ELSE generic_rewrite(typ)

ChainedRewriter_rewrite(rewriters, typ) ==
    IF rewriters = <<>> THEN typ
    ELSE ChainedRewriter_rewrite(Tail(rewriters), rewrite(Head(rewriters), typ))

DEFAULT_REWRITER(typ) ==
    ChainedRewriter_rewrite(<<RemoveEmptyContainers, RewriteConfigDict,
                              RewriteLargeUnion(DefaultMaxUnionLen), RewriteGenerator>>, typ)

(***************************************************************************)
(* Runtime values and their inference.  A value is [t, s, e, d]: t is the  *)
(* name of type(obj) ("type" for a class object, "function", "generator",  *)
(* "list", "set", "dict", "defaultdict", "tuple" or another class), s the  *)
(* text of a str or the name of a class object, e the elements of a list,  *)
(* set or tuple, d the items of a dict as <<key, value>> in order.         *)
(***************************************************************************)
Value(t, s, e, d) == [t |-> t, s |-> s, e |-> e, d |-> d]

dict_keys(dct) == [i \in 1..Len(dct.d) |-> dct.d[i][1]]

dict_values(dct) == [i \in 1..Len(dct.d) |-> dct.d[i][2]]

\* The size test letting one field too many through.
fits_typed_dict_plus_one(n, size) == size = None \/ n <= size[1] + 1

\* max_typed_dict_size is None or len(dct) <= max_typed_dict_size
fits_typed_dict(n, size) == size = None \/ n <= size[1]

get_dict_type(dct, size) ==
    IF Len(dct.d) = 0 THEN Generic("Dict", "typing", <<AnyT, AnyT>>)
    ELSE IF (\A i \in 1..Len(dct.d) : dct.d[i][1].t = "str") /\ fits_typed_dict(Len(dct.d), size)
    THEN make_typed_dict([i \in 1..Len(dct.d) |-> <<dct.d[i][1].s, get_type(dct.d[i][2], size)>>],
                         <<>>)
    ELSE LET key_type == shrink_types([i \in 1..Len(dct.d) |-> get_type(dict_keys(dct)[i], size)], size)
             val_type == shrink_types([i \in 1..Len(dct.d) |-> get_type(dict_values(dct)[i], size)], size)
         IN Generic("Dict", "typing", <<key_type, val_type>>)

get_type(o, size) ==
    CASE o.t = "type" -> TypeOf(o.s)
      [] o.t = "function" -> CallableT
      [] o.t = "generator" -> Generic("Iterator", "typing", <<AnyT>>)
      [] o.t = "list" ->
            Generic("List", "builtins",
                    <<shrink_types([i \in 1..Len(o.e) |-> get_type(o.e[i], size)], size)>>)
      [] o.t = "set" ->
            Generic("Set", "builtins",
                    <<shrink_types([i \in 1..Len(o.e) |-> get_type(o.e[i], size)], size)>>)
      [] o.t = "dict" -> get_dict_type(o, size)
      [] o.t = "defaultdict" ->
            LET key_type == shrink_types([i \in 1..Len(o.d) |-> get_type(dict_keys(o)[i], size)], size)
                val_type == shrink_types([i \in 1..Len(o.d) |-> get_type(dict_values(o)[i], size)], size)
            IN Generic("DefaultDict", "typing", <<key_type, val_type>>)
      [] o.t = "tuple" -> Generic("Tuple", "builtins", [i \in 1..Len(o.e) |-> get_type(o.e[i], size)])
      [] OTHER -> Class(o.t)


(***************************************************************************)
(* Inputs                                                                  *)
(***************************************************************************)
MaxTypes == 3

MaxSize == 2

Sizes == {Some(n) : n \in 0..MaxSize}

SizesOrNone == Sizes \cup {None}

SeqsUpTo(S, n) == UNION {[1..k -> S] : k \in 0..n}

IntT == Class("int")

StrT == Class("str")

TypedDictOf(required_fields, optional_fields) ==
    Node("TypedDict", DUMMY_TYPED_DICT_NAME, "", <<>>, required_fields, optional_fields)

ListOf(t) == Node("List", "", "typing", <<t>>, <<>>, <<>>)

TupleOf(a) == Node("Tuple", "", "builtins", a, <<>>, <<>>)

DictOf(key, val) == Node("Dict", "", "typing", <<key, val>>, <<>>, <<>>)

\* Anonymous TypedDicts, each with disjoint required and optional keys.
TypedDicts ==
    {TypedDictOf(<<>>, <<>>),
     TypedDictOf(<<<<"a", IntT>>>>, <<>>),
     TypedDictOf(<<<<"a", IntT>>, <<"b", StrT>>>>, <<>>),
     TypedDictOf(<<<<"b", IntT>>, <<"c", IntT>>>>, <<>>),
     TypedDictOf(<<<<"a", IntT>>>>, <<<<"b", IntT>>>>),
     TypedDictOf(<<>>, <<<<"a", StrT>>>>),
     TypedDictOf(<<<<"a", TypedDictOf(<<<<"a", IntT>>>>, <<>>)>>>>, <<>>),
     TypedDictOf(<<<<"a", TypedDictOf(<<<<"a", IntT>>, <<"b", StrT>>>>, <<>>)>>>>, <<>>)}

Types ==
    {IntT, StrT,
     ListOf(IntT),
     TypedDictOf(<<<<"a", IntT>>>>, <<>>),
     TypedDictOf(<<<<"a", IntT>>, <<"b", StrT>>>>, <<>>),
     ListOf(TypedDictOf(<<<<"a", IntT>>>>, <<>>)),
     ListOf(TypedDictOf(<<<<"b", StrT>>>>, <<>>)),
     Node("Union", "", "typing", <<IntT, StrT>>, <<>>, <<>>)}

NoValue == Value("NoneType", "", <<>>, <<>>)

(***************************************************************************)
(* Shrinking a sequence of types                                           *)
(***************************************************************************)
InitShrink ==
    /\ op = "init"
    /\ obj = NoValue
    /\ types = <<>>
    /\ max_typed_dict_size = Some(0)
    /\ max_union_len = DefaultMaxUnionLen
    /\ result = AnyT

DoShrinkTypes ==
    /\ op = "init"
    /\ \E ts \in SeqsUpTo(Types, MaxTypes), size \in SizesOrNone :
            /\ op' = "shrink_types"
            /\ types' = ts
            /\ max_typed_dict_size' = size
            /\ result' = shrink_types(ts, size)
            /\ UNCHANGED <<obj, max_union_len>>

DoShrinkTypedDictTypes ==
    /\ op = "init"
    /\ \E ts \in SeqsUpTo(TypedDicts, MaxTypes) \ {<<>>}, size \in SizesOrNone :
            /\ op' = "shrink_typed_dict_types"
            /\ types' = ts
            /\ max_typed_dict_size' = size
            /\ result' = shrink_typed_dict_types(ts, size)
            /\ UNCHANGED <<obj, max_union_len>>

NextShrink == DoShrinkTypes \/ DoShrinkTypedDictTypes

SpecShrink == InitShrink /\ [][NextShrink]_vars


(***************************************************************************)
(* Properties of shrinking                                                 *)
(***************************************************************************)
Shrunk == op \in {"shrink_types", "shrink_typed_dict_types"}

\* max_typed_dict_size is an integer.
Sized == max_typed_dict_size # None

ShrunkSized == Shrunk /\ Sized

AllAnonymous(ts) == ts # <<>> /\ \A i \in 1..Len(ts) : is_anonymous_typed_dict(ts[i])

\* The distinct field names of the records, required or optional.
MergedFieldNames(ts) == UNION {FieldNames(ts[i].r) \cup FieldNames(ts[i].o) : i \in 1..Len(ts)}

RequiredInAll(ts) == {key \in MergedFieldNames(ts) : \A i \in 1..Len(ts) : key \in FieldNames(ts[i].r)}

RequiredInSome(ts) == {key \in MergedFieldNames(ts) : \E i \in 1..Len(ts) : key \in FieldNames(ts[i].r)}

OptionalInSome(ts) == {key \in MergedFieldNames(ts) : \E i \in 1..Len(ts) : key \in FieldNames(ts[i].o)}

\* Every value type seen for a field name, record by record.
Observed(key, ts) == Concat([i \in 1..Len(ts) |-> ValuesFor(key, ts[i].r) \o ValuesFor(key, ts[i].o)])

Orderings(n) == {p \in [1..n -> 1..n] : \A i, j \in 1..n : p[i] = p[j] => i = j}

\* A type shrinking leaves alone: no anonymous TypedDict, or one that, with every
\* anonymous TypedDict among its field types, has at most n fields.
RECURSIVE WithinSize(_, _)
WithinSize(t, n) ==
    \/ ~is_anonymous_typed_dict(t)
    \/ /\ Len(t.r) + Len(t.o) <= n
       /\ \A i \in 1..Len(t.r) : WithinSize(t.r[i][2], n)
       /\ \A i \in 1..Len(t.o) : WithinSize(t.o[i][2], n)

\* C1: when the records being merged have more distinct field names than
\* max_typed_dict_size, the result is dict[str, V] and never a TypedDict.
C1_RecordCapEnforced ==
    (ShrunkSized /\ AllAnonymous(types)
        /\ Cardinality(MergedFieldNames(types)) > max_typed_dict_size[1])
    => (result.k = "Dict" /\ Len(result.a) = 2 /\ result.a[1] = StrT /\ ~is_typed_dict(result))

\* C1 witness: two records that each fit the size but whose merge does not.
C1_Witness ==
    /\ ShrunkSized /\ AllAnonymous(types) /\ Len(types) = 2
    /\ \A i \in 1..2 : Len(types[i].r) + Len(types[i].o) <= max_typed_dict_size[1]
    /\ Cardinality(MergedFieldNames(types)) > max_typed_dict_size[1]
    /\ result.k = "Dict"

\* C4: shrinking any permutation of the types gives a type equal to the result.
C4_OrderInsensitive ==
    Shrunk => \A p \in Orderings(Len(types)) :
                  types_equal(shrink_types([i \in 1..Len(types) |-> types[p[i]]],
                                           max_typed_dict_size),
                              result)

\* C4 witness: three different lists were shrunk into one list.
C4_Witness ==
    /\ Shrunk /\ Len(types) = 3
    /\ \A i \in 1..3 : is_list(types[i])
    /\ \A i, j \in 1..3 : i # j => ~types_equal(types[i], types[j])
    /\ is_list(result)

\* C5 as stated: shrinking a single type returns that type.
C5_ShrinkIdentity == (ShrunkSized /\ Len(types) = 1) => types_equal(result, types[1])

\* C5 amended: shrinking a single type returns that type, provided it is not an
\* anonymous TypedDict or it is one that, with every anonymous TypedDict among
\* its field types, has at most max_typed_dict_size fields.
C5_ShrinkIdentityWithinSize ==
    (ShrunkSized /\ Len(types) = 1 /\ WithinSize(types[1], max_typed_dict_size[1]))
    => types_equal(result, types[1])

\* C5 witness: a single record with exactly max_typed_dict_size fields came back.
C5_Witness ==
    /\ ShrunkSized /\ Len(types) = 1 /\ is_anonymous_typed_dict(types[1])
    /\ Len(types[1].r) + Len(types[1].o) = max_typed_dict_size[1]
    /\ Len(types[1].o) > 0
    /\ result = types[1]

\* C7: when the merged field count fits, the result is an anonymous TypedDict
\* whose required fields are those required in every record, whose optional
\* fields are those required in some but not all records or optional in one,
\* and whose field types are the shrink of every value type seen for the name.
C7_FieldClassification ==
    (ShrunkSized /\ AllAnonymous(types)
        /\ Cardinality(MergedFieldNames(types)) <= max_typed_dict_size[1])
    => /\ is_anonymous_typed_dict(result)
       /\ FieldNames(result.r) = RequiredInAll(types)
       /\ FieldNames(result.o) =
              (RequiredInSome(types) \ RequiredInAll(types)) \cup OptionalInSome(types)
       /\ Len(result.r) + Len(result.o) = Cardinality(MergedFieldNames(types))
       /\ \A key \in MergedFieldNames(types) :
              types_equal(ValuesFor(key, result.r \o result.o)[1],
                          shrink_types(Observed(key, types), max_typed_dict_size))

\* C7 witness: {a: int} merged with {a: int, b: str} gives required a, optional b.
C7_Witness ==
    /\ Shrunk
    /\ types = <<TypedDictOf(<<<<"a", IntT>>>>, <<>>),
                 TypedDictOf(<<<<"a", IntT>>, <<"b", StrT>>>>, <<>>)>>
    /\ result = TypedDictOf(<<<<"a", IntT>>>>, <<<<"b", StrT>>>>)


(***************************************************************************)
(* Inferring the type of runtime values, shrinking the types traced over   *)
(* several calls and rewriting the result                                  *)
(***************************************************************************)
MaxElems == 2

MaxTraces == 2

IntV == Value("int", "", <<>>, <<>>)

StrV(text) == Value("str", text, <<>>, <<>>)

ListV(elems) == Value("list", "", elems, <<>>)

SetV(elems) == Value("set", "", elems, <<>>)

TupleV(elems) == Value("tuple", "", elems, <<>>)

DictV(items) == Value("dict", "", <<>>, items)

DefaultDictV(items) == Value("defaultdict", "", <<>>, items)

Atoms == {IntV, StrV("x")}

\* Dicts with the keys "a" and "b", or a part of them, in that order.
StrDicts(vals) ==
    {DictV(<<>>)}
    \cup {DictV(<<<<StrV(key), v>>>>) : key \in {"a", "b"}, v \in vals}
    \cup {DictV(<<<<StrV("a"), v>>, <<StrV("b"), w>>>>) : v \in vals, w \in vals}

\* Dicts with an int key.
IntDicts(vals) == {DictV(<<<<IntV, v>>>>) : v \in vals}

FlatValues == Atoms \cup StrDicts(Atoms) \cup IntDicts(Atoms)

SmallValues ==
    {IntV, DictV(<<<<StrV("a"), IntV>>>>), DictV(<<<<StrV("b"), StrV("x")>>>>),
     DictV(<<<<StrV("a"), IntV>>, <<StrV("b"), StrV("x")>>>>)}

Values ==
    FlatValues
    \cup {Value("type", "int", <<>>, <<>>), Value("function", "", <<>>, <<>>),
          Value("generator", "", <<>>, <<>>), Value("bool", "", <<>>, <<>>)}
    \cup {ListV(e) : e \in SeqsUpTo(FlatValues, MaxElems)}
    \cup {SetV(e) : e \in SeqsUpTo(SmallValues, MaxElems)}
    \cup {TupleV(e) : e \in SeqsUpTo(SmallValues, MaxElems)}
    \cup {DefaultDictV(<<<<StrV("a"), v>>>>) : v \in SmallValues}
    \cup StrDicts({ListV(e) : e \in SeqsUpTo(SmallValues, MaxElems)})
    \cup IntDicts(StrDicts(Atoms))
    \cup {ListV(<<DictV(<<<<StrV("a"), v>>>>), DictV(<<<<StrV("a"), w>>>>)>>) :
              v \in StrDicts(Atoms), w \in StrDicts(Atoms)}

\* The values traced over the calls of one function.
TraceValues ==
    {IntV, StrV("x"), ListV(<<>>), ListV(<<IntV>>),
     DictV(<<<<StrV("a"), IntV>>>>),
     DictV(<<<<StrV("a"), IntV>>, <<StrV("b"), StrV("x")>>>>),
     DictV(<<<<IntV, ListV(<<>>)>>>>), DictV(<<<<IntV, ListV(<<IntV>>)>>>>),
     DictV(<<<<IntV, DictV(<<<<IntV, IntV>>>>)>>>>),
     DictV(<<<<IntV, DictV(<<<<IntV, StrV("x")>>>>)>>>>)}

DoGetType ==
    /\ op = "init"
    /\ \E o \in Values, size \in SizesOrNone :
            /\ op' = "get_type"
            /\ obj' = o
            /\ max_typed_dict_size' = size
            /\ result' = get_type(o, size)
            /\ UNCHANGED <<types, max_union_len>>

\* One more call is traced: its value's type joins the types collected so far.
DoTrace ==
    /\ op \in {"init", "trace"}
    /\ Len(types) < MaxTraces
    /\ \E o \in TraceValues, size \in Sizes :
            /\ op = "trace" => size = max_typed_dict_size
            /\ op' = "trace"
            /\ obj' = o
            /\ max_typed_dict_size' = size
            /\ result' = get_type(o, size)
            /\ types' = Append(types, result')
            /\ UNCHANGED max_union_len

DoShrinkTraces ==
    /\ op = "trace"
    /\ op' = "shrunk"
    /\ result' = shrink_types(types, max_typed_dict_size)
    /\ UNCHANGED <<obj, types, max_typed_dict_size, max_union_len>>

DoRewriteShrunk ==
    /\ op = "shrunk"
    /\ op' = "rewritten"
    /\ types' = <<result>>
    /\ result' = DEFAULT_REWRITER(result)
    /\ UNCHANGED <<obj, max_typed_dict_size, max_union_len>>

NextInfer == DoGetType \/ DoTrace \/ DoShrinkTraces \/ DoRewriteShrunk

SpecInfer == InitShrink /\ [][NextInfer]_vars

\* Every anonymous TypedDict in t, at any depth, has at most n fields.
RECURSIVE TypedDictsWithin(_, _)
TypedDictsWithin(t, n) ==
    /\ is_anonymous_typed_dict(t) => Len(t.r) + Len(t.o) <= n
    /\ \A i \in 1..Len(t.a) : TypedDictsWithin(t.a[i], n)
    /\ \A i \in 1..Len(t.r) : TypedDictsWithin(t.r[i][2], n)
    /\ \A i \in 1..Len(t.o) : TypedDictsWithin(t.o[i][2], n)

IsStrKeyedDict(o) == o.t = "dict" /\ o.d # <<>> /\ \A i \in 1..Len(o.d) : o.d[i][1].t = "str"

C6_Total == (op = "get_type" \/ Shrunk) => ~IsError(result)

\* C9: with max_typed_dict_size = N >= 0, get_type returns a type in which no
\* anonymous TypedDict, at any depth, has more than N fields; with N = 0 a
\* non-empty dict with str keys becomes Dict[str, V].
C9_CapAtEveryDepth ==
    (op = "get_type" /\ Sized /\ max_typed_dict_size[1] >= 0)
    => /\ ~IsError(result)
       /\ TypedDictsWithin(result, max_typed_dict_size[1])
       /\ (max_typed_dict_size[1] = 0 /\ IsStrKeyedDict(obj))
              => (result.k = "Dict" /\ result.a[1] = StrT)

\* C9 witness: a list of two dicts that each fit the size, merged beyond it.
C9_Witness ==
    /\ op = "get_type" /\ Sized /\ max_typed_dict_size[1] >= 1
    /\ obj.t = "list" /\ Len(obj.e) = 2
    /\ \A i \in 1..2 : IsStrKeyedDict(obj.e[i]) /\ Len(obj.e[i].d) <= max_typed_dict_size[1]
    /\ result.k = "List" /\ result.a[1].k = "Dict"


(***************************************************************************)
(* Rewriting one union                                                     *)
(***************************************************************************)
MaxUnion == 3

MaxUnionLen == 2

\* Unions of 2..n members of S, no two equal, in every order.
UnionsOf(S, n) ==
    {Node("Union", "", "typing", a, <<>>, <<>>) :
        a \in {b \in SeqsUpTo(S, n) : Len(b) >= 2 /\ \A i, j \in 1..Len(b) : b[i] = b[j] => i = j}}

EmptyTuple == Node("Tuple", "", "typing", <<>>, <<>>, <<>>)

ContainerMembers ==
    {IntT, StrT, ListOf(AnyT), ListOf(IntT), DictOf(AnyT, AnyT), DictOf(StrT, IntT),
     Node("Set", "", "builtins", <<AnyT>>, <<>>, <<>>),
     ListOf(Node("Union", "", "typing", <<ListOf(AnyT), ListOf(IntT)>>, <<>>, <<>>))}

ClassMembers ==
    {IntT, Class("bool"), StrT, Class("Animal"), Class("Dog"), Class("Cat"), Class("Pet"),
     Class("PetCat"), ListOf(IntT), EmptyTuple,
     Node("Tuple", "", "typing", <<IntT>>, <<>>, <<>>),
     Node("Tuple", "", "typing", <<IntT, IntT>>, <<>>, <<>>),
     Node("Tuple", "", "typing", <<IntT, StrT>>, <<>>, <<>>)}

DoRemoveEmptyContainers ==
    /\ op = "init"
    /\ \E union \in UnionsOf(ContainerMembers, MaxUnion) :
            /\ op' = "remove_empty_containers"
            /\ types' = <<union>>
            /\ result' = rewrite(RemoveEmptyContainers, union)
            /\ UNCHANGED <<obj, max_typed_dict_size, max_union_len>>

DoRewriteLargeUnion ==
    /\ op = "init"
    /\ \E union \in UnionsOf(ClassMembers, MaxUnion), n \in 1..MaxUnionLen :
            /\ op' = "rewrite_large_union"
            /\ types' = <<union>>
            /\ max_union_len' = n
            /\ result' = rewrite(RewriteLargeUnion(n), union)
            /\ UNCHANGED <<obj, max_typed_dict_size>>

NextRewrite == DoRemoveEmptyContainers \/ DoRewriteLargeUnion

SpecRewrite == InitShrink /\ [][NextRewrite]_vars

\* C2: the members of a union that are containers of Any only are dropped when
\* another member is left, and the result is the union of what is left,
\* rewritten; with nothing left the union comes back as it was.
C2_EmptyContainersRemoved ==
    op = "remove_empty_containers"
    => LET survivors == SelectSeq(types[1].a, LAMBDA e : ~_is_empty(e))
       IN IF survivors # <<>>
          THEN types_equal(result,
                           Union([i \in 1..Len(survivors) |->
                                     rewrite(RemoveEmptyContainers, survivors[i])]))
          ELSE result = types[1]

\* No class but object is a superclass of every member.
NoCommonAncestor(args) ==
    ~\E c \in ClassNames \ {"object"} :
        \A i \in 1..Len(args) : is_class(args[i]) /\ issubclass(args[i], c)

\* C8: a union of at most max_union_len members comes back as it was; one of
\* max_union_len + 1 members with no common ancestor but object becomes Any.
C8_TruncationBoundary ==
    op = "rewrite_large_union"
    => /\ Len(types[1].a) <= max_union_len => result = types[1]
       /\ (Len(types[1].a) = max_union_len + 1 /\ NoCommonAncestor(types[1].a))
              => result = AnyT

\* Every member is a tuple and all their elements are one type.
CollapsibleToTuple(args) ==
    /\ \A i \in 1..Len(args) : is_generic_of(args[i], "Tuple")
    /\ \A i, j \in 1..Len(args) : \A k \in 1..Len(args[i].a) : \A l \in 1..Len(args[j].a) :
           args[i].a[k] = args[j].a[l]

\* The class, then its only base, and so on, up to a class with several bases
\* or to object, which is left out.
RECURSIVE single_inheritance_chain(_)
single_inheritance_chain(c) ==
    IF c = "object" THEN <<>>
    ELSE <<c>> \o (IF Len(bases(c)) = 1 THEN single_inheritance_chain(bases(c)[1]) ELSE <<>>)

\* The first class of the chain that every member is a subclass of, else Any.
MostSpecificOnChain(chain, args) ==
    LET common(c) == \A i \in 1..Len(args) : is_class(args[i]) /\ issubclass(args[i], c)
    IN IF \E i \in 1..Len(chain) : common(chain[i])
       THEN Class(chain[CHOOSE i \in 1..Len(chain) :
                            common(chain[i]) /\ \A j \in 1..(i - 1) : ~common(chain[j])])
       ELSE AnyT

\* C10: a union of more than max_union_len members that does not collapse to a
\* variadic tuple becomes the most specific class on the single-inheritance
\* chain of its first member that all members are subclasses of, else Any.
C10_AncestorRule ==
    (op = "rewrite_large_union" /\ Len(types[1].a) > max_union_len
        /\ ~CollapsibleToTuple(types[1].a))
    => result = MostSpecificOnChain(
                    IF is_class(types[1].a[1]) THEN single_inheritance_chain(types[1].a[1].n)
                    ELSE <<>>,
                    types[1].a)


(***************************************************************************)
(* Shrinking and inference together: every path on which anonymous         *)
(* TypedDicts are built or merged                                          *)
(***************************************************************************)
NextMerge ==
    \/ DoShrinkTypes
    \/ DoShrinkTypedDictTypes
    \/ DoGetType
    \/ DoTrace
    \/ DoShrinkTraces
    \/ DoRewriteShrunk

SpecMerge == InitShrink /\ [][NextMerge]_vars

\* The assert of make_typed_dict failed somewhere while t was built.
RECURSIVE AssertionFailed(_)
AssertionFailed(t) ==
    \/ IsError(t) /\ t = Error("AssertionError")
    \/ \E i \in 1..Len(t.a) : AssertionFailed(t.a[i])
    \/ \E i \in 1..Len(t.r) : AssertionFailed(t.r[i][2])
    \/ \E i \in 1..Len(t.o) : AssertionFailed(t.o[i][2])

\* Every TypedDict in t, at any depth, has disjoint required and optional keys.
RECURSIVE DisjointFields(_)
DisjointFields(t) ==
    /\ is_typed_dict(t) => FieldNames(t.r) \cap FieldNames(t.o) = {}
    /\ \A i \in 1..Len(t.a) : DisjointFields(t.a[i])
    /\ \A i \in 1..Len(t.r) : DisjointFields(t.r[i][2])
    /\ \A i \in 1..Len(t.o) : DisjointFields(t.o[i][2])

Inferred == op \in {"get_type", "trace", "shrunk"}

\* C11: merging anonymous TypedDicts that each have disjoint required and
\* optional keys never fails the assert of make_typed_dict, and every
\* TypedDict in a type returned by shrink_types, shrink_typed_dict_types or
\* get_type, at any depth, has disjoint required and optional keys.
C11_DisjointnessPreserved ==
    (Shrunk \/ Inferred)
    => /\ \A i \in 1..Len(types) : DisjointFields(types[i])
       /\ ~AssertionFailed(result)
       /\ DisjointFields(result)

\* C11 witness: a is required in one record and optional in the other; the
\* merged record has it as an optional field only.
C11_Witness ==
    /\ op = "shrink_typed_dict_types" /\ Sized
    /\ types = <<TypedDictOf(<<<<"a", IntT>>>>, <<>>), TypedDictOf(<<>>, <<<<"a", StrT>>>>)>>
    /\ is_anonymous_typed_dict(result)
    /\ FieldNames(result.r) = {}
    /\ FieldNames(result.o) = {"a"}

====
